---- MODULE Spec2Model ----
(***************************************************************************)
(* MediReminder (src/MedicationReminderHealthLog.py): the two SQLite       *)
(* tables, the five Streamlit pages that read and write them, and the      *)
(* text conversions (str(date), strftime, split, join, strip) the pages    *)
(* rely on.                                                                *)
(*                                                                         *)
(* Encoding.  A Python/SQLite text is a sequence of one-character strings, *)
(* so that split, join and lexicographic comparison are computed and not   *)
(* assumed.  A nullable column holds <<>> for NULL and <<v>> for a value v.*)
(* A calendar date is <<year, month, day>>, a time of day <<hour, minute>>.*)
(***************************************************************************)
EXTENDS Integers, Sequences, FiniteSets, TLC

VARIABLES
    medications,  \* table medications, in rowid order
    health_log,   \* table health_log, in rowid order
    today,        \* the calendar date datetime.now() yields
    shown,        \* what the last script run rendered (page, message, output)
    last,         \* history: the operation the last script run handled
    marked,       \* history: <<date text, name>> of every completed mark click
    tabs          \* browser sessions inside the "Mark as Taken" handler

vars == <<medications, health_log, today, shown, last, marked, tabs>>

(***************************************************************************)
(* Bounds of the model.                                                    *)
(***************************************************************************)
MaxMeds == 2           \* medications rows, specification Spec
MaxLogs == 3           \* health_log rows, specification Spec
MaxDays == 2           \* days the clock passes through, specification Spec
MaxTaken == 4          \* names in one taken_medications text
MaxCatalogueMeds == 2  \* medications rows, specification SpecCatalogue
MaxExportMeds == 1     \* medications rows, specification SpecExport
MaxExportLogs == 2     \* health_log rows, specification SpecExport

(***************************************************************************)
(* Text.                                                                   *)
(***************************************************************************)
\* The characters used, in code-point order.
CharOrder ==
    <<" ", ",", "-", "0", "1", "2", "3", "4", "5", "6", "7", "8", "9",
      ":", ";", "H", "a", "b", "g", "m", "n">>

Ord(ch) == CHOOSE i \in 1..Len(CharOrder) : CharOrder[i] = ch

Digits == <<"0", "1", "2", "3", "4", "5", "6", "7", "8", "9">>

Min(S) == CHOOSE x \in S : \A y \in S : x <= y

\* Python's str < str and SQLite's BINARY collation on TEXT.
RECURSIVE LexLess(_, _)
LexLess(s, t) ==
    IF t = <<>> THEN FALSE
    ELSE IF s = <<>> THEN TRUE
    ELSE IF s[1] = t[1] THEN LexLess(Tail(s), Tail(t))
    ELSE Ord(s[1]) < Ord(t[1])

LexLE(s, t) == s = t \/ LexLess(s, t)

\* str.split(sep) for a one-character separator.
RECURSIVE Split(_, _)
Split(s, sep) ==
    LET idx == {i \in 1..Len(s) : s[i] = sep}
    IN  IF idx = {} THEN <<s>>
        ELSE <<SubSeq(s, 1, Min(idx) - 1)>>
                 \o Split(SubSeq(s, Min(idx) + 1, Len(s)), sep)

\* sep.join(parts)
RECURSIVE Join(_, _)
Join(parts, sep) ==
    IF parts = <<>> THEN <<>>
    ELSE IF Len(parts) = 1 THEN parts[1]
    ELSE parts[1] \o <<sep>> \o Join(Tail(parts), sep)

\* str.strip()
RECURSIVE LStrip(_)
LStrip(s) == IF s # <<>> /\ s[1] = " " THEN LStrip(Tail(s)) ELSE s

RECURSIVE RStrip(_)
RStrip(s) ==
    IF s # <<>> /\ s[Len(s)] = " " THEN RStrip(SubSeq(s, 1, Len(s) - 1)) ELSE s

Strip(s) == RStrip(LStrip(s))

\* x in list
In(x, list) == \E i \in 1..Len(list) : list[i] = x

\* Zero-padded decimal fields of strftime / date.__str__.
Pad2(n) == <<Digits[(n \div 10) + 1], Digits[(n % 10) + 1]>>

Pad4(n) == Pad2(n \div 100) \o Pad2(n % 100)

\* str(date) and strftime("%Y-%m-%d")
DateStr(d) == Pad4(d[1]) \o <<"-">> \o Pad2(d[2]) \o <<"-">> \o Pad2(d[3])

\* strftime("%H:%M")
TimeStr(t) == Pad2(t[1]) \o <<":">> \o Pad2(t[2])

\* Nullable columns and Python truthiness of "x" in "if x".
NULL == <<>>

Some(v) == <<v>>

Truthy(o) == o # NULL /\ o[1] # <<>>

Coalesce(o, dflt) == IF o = NULL THEN dflt ELSE o[1]

\* def parse_times(time_str)
parse_times(time_str) ==
    IF time_str = <<>> THEN <<>>
    ELSE LET parts == Split(time_str, ",")
         IN  [i \in 1..Len(parts) |-> Strip(parts[i])]

(***************************************************************************)
(* The environment's inputs: the days the clock passes through, times of   *)
(* day at which a page is opened, and what the user types into the forms.  *)
(***************************************************************************)
Days == << <<2024, 1, 5>>, <<2024, 1, 10>>, <<2024, 2, 1>> >>

DaySet == {Days[i] : i \in 1..Len(Days)}

Clock == {<<8, 0>>, <<12, 0>>}

PlainNames == {<<"a">>, <<"b">>}

NameInputs == PlainNames \cup {<<>>, <<"a", ";", "b">>}

DosageInputs == {<<>>, <<"5", "m", "g">>}

\* "08:00, 20:00" (the form's placeholder) and the unpadded "9:00"
ReminderInputs ==
    {<<>>,
     <<"0", "8", ":", "0", "0", ",", " ", "2", "0", ":", "0", "0">>,
     <<"9", ":", "0", "0">>}

SymptomForms ==
    {[symptom |-> <<"H">>, severity |-> 6, notes |-> <<>>],
     [symptom |-> <<>>, severity |-> 5, notes |-> <<"n">>]}

\* The check with the name left out: "if not dosage or not reminder_input".
RequiredFieldMissing_NoName(name, dosage, reminder_input) ==
    dosage = <<>> \/ reminder_input = <<>>

\* if not name or not dosage or not reminder_input
RequiredFieldMissing(name, dosage, reminder_input) ==
    name = <<>> \/ dosage = <<>> \/ reminder_input = <<>>

\* Every submission of the Add-Medication form.
AllMedForms ==
    [name : NameInputs, dosage : DosageInputs, reminder_input : ReminderInputs,
     start_date : DaySet, end_date : {NULL} \cup {Some(d) : d \in DaySet}]

Padded == <<"0", "8", ":", "0", "0", ",", " ", "2", "0", ":", "0", "0">>

Unpadded == <<"9", ":", "0", "0">>

\* Submissions that keep the date pickers' defaults (start today, no end):
\* "a" and "a;b" at 08:00 and 20:00, and one without a name.
AdherenceForms ==
    {f \in AllMedForms :
        /\ f.start_date = today /\ f.end_date = NULL
        /\ f.name \in {<<>>, <<"a">>, <<"a", ";", "b">>}
        /\ f.dosage # <<>>
        /\ f.reminder_input = Padded}

\* Submissions of one medication name with every choice of the two dates,
\* and those that leave a required field empty.
CatalogueForms ==
    {f \in AllMedForms :
        /\ f.name \in {<<>>, <<"a">>}
        /\ f.reminder_input \in {<<>>, Unpadded}
        /\ RequiredFieldMissing(f.name, f.dosage, f.reminder_input)
              => f.start_date = today /\ f.end_date = NULL}

\* Submissions of one medication name with the default dates.
ExportForms ==
    {f \in AllMedForms :
        /\ f.start_date = today /\ f.end_date = NULL
        /\ f.name \in {<<>>, <<"a">>}
        /\ f.dosage # <<>>
        /\ f.reminder_input = Padded}

(***************************************************************************)
(* Persistence: the SQL statements.                                        *)
(***************************************************************************)
\* The query with "BETWEEN start_date AND end_date": a NULL end_date makes
\* the comparison NULL and the row is not selected.
listMedicationsActiveOn_NoCoalesce(meds, d) ==
    SelectSeq(meds, LAMBDA m :
        /\ LexLE(m.start_date, d)
        /\ m.end_date # NULL
        /\ LexLE(d, m.end_date[1]))

\* SELECT * FROM medications WHERE ? BETWEEN start_date AND COALESCE(end_date, ?)
listMedicationsActiveOn(meds, d) ==
    SelectSeq(meds, LAMBDA m :
        /\ LexLE(m.start_date, d)
        /\ LexLE(d, Coalesce(m.end_date, d)))

\* SELECT taken_medications FROM health_log WHERE date = ?  + fetchone():
\* <<>> when no row matches, else the 1-tuple of the first row in rowid order.
findHealthLogEntryByDate(log, d) ==
    LET idx == {i \in 1..Len(log) : log[i].date = d}
    IN  IF idx = {} THEN <<>> ELSE <<log[Min(idx)].taken_medications>>

\* row[0].split(";") if row and row[0] else []
TakenList(row) ==
    IF row # <<>> /\ Truthy(row[1]) THEN Split(row[1][1], ";") ELSE <<>>

\* UPDATE health_log SET taken_medications = ? WHERE date = ?
updateTakenMedications(log, d, taken_str) ==
    [i \in 1..Len(log) |->
        IF log[i].date = d
        THEN [log[i] EXCEPT !.taken_medications = Some(taken_str)]
        ELSE log[i]]

\* INSERT INTO health_log (date, taken_medications) VALUES (?, ?)
insertTakenEntry(log, d, name) ==
    Append(log, [id |-> Len(log) + 1, date |-> d, symptom |-> NULL,
                 severity |-> NULL, notes |-> NULL,
                 taken_medications |-> Some(name)])

\* INSERT INTO health_log (date, symptom, severity, notes) VALUES (?, ?, ?, ?)
insertHealthLogEntry(log, d, symptom, severity, notes) ==
    Append(log, [id |-> Len(log) + 1, date |-> d, symptom |-> Some(symptom),
                 severity |-> Some(severity), notes |-> Some(notes),
                 taken_medications |-> NULL])

\* INSERT INTO medications (...) VALUES (?, ?, ?, ?, ?, ?, ?)
insertMedication(meds, f) ==
    Append(meds, [id |-> Len(meds) + 1, name |-> f.name, dosage |-> f.dosage,
                  frequency |-> "Daily",
                  start_date |-> DateStr(f.start_date),
                  end_date |-> IF f.end_date # NULL
                               THEN Some(DateStr(f.end_date[1])) ELSE NULL,
                  times_per_day |-> 2,
                  reminder_times |-> f.reminder_input])

\* The query with an exclusive upper end: "date >= ? AND date < ?".
listHealthLogEntriesInRange_Exclusive(log, start, end) ==
    SelectSeq(log, LAMBDA r : LexLE(start, r.date) /\ LexLess(r.date, end))

\* SELECT * FROM health_log WHERE date BETWEEN ? AND ?
listHealthLogEntriesInRange(log, start, end) ==
    SelectSeq(log, LAMBDA r : LexLE(start, r.date) /\ LexLE(r.date, end))

\* SELECT date, taken_medications FROM health_log WHERE taken_medications != ''
adherenceRows(log) == SelectSeq(log, LAMBDA r : Truthy(r.taken_medications))

(***************************************************************************)
(* Dashboard: the pending/taken classification and the mark handler.       *)
(***************************************************************************)
\* if t < current_time
DueAlready(t, current_time) == LexLess(t, current_time)

\* The loop over reminder_times of one medication card.
Classify(log, d, current_time, med) ==
    LET reminder_times == parse_times(med.reminder_times)
        med_taken == TakenList(findHealthLogEntryByDate(log, d))
        bucket(t) == IF DueAlready(t, current_time)
                     THEN IF In(med.name, med_taken) THEN "taken" ELSE "pending"
                     ELSE "pending"
    IN  [id |-> med.id, name |-> med.name, times |-> reminder_times,
         pending |-> SelectSeq(reminder_times, LAMBDA t : bucket(t) = "pending"),
         taken |-> SelectSeq(reminder_times, LAMBDA t : bucket(t) = "taken")]

RenderDashboard(meds, log, day, current_time) ==
    LET active == listMedicationsActiveOn(meds, DateStr(day))
    IN  [page |-> "Dashboard", date |-> DateStr(day),
         now |-> current_time,
         cards |-> [i \in 1..Len(active) |->
                       Classify(log, DateStr(day), current_time, active[i])]]

\* The body of "if st.button(Mark ... as Taken Now)": the table afterwards.
markMedicationTaken(log, d, name) ==
    LET row == findHealthLogEntryByDate(log, d)
        taken_list == TakenList(row)
        taken_str == Join(Append(taken_list, name), ";")
    IN  IF In(name, taken_list) THEN log
        ELSE IF row # <<>> THEN updateTakenMedications(log, d, taken_str)
        ELSE insertTakenEntry(log, d, name)

(***************************************************************************)
(* Add Medication, Health Log, Reports and PDF pages.                      *)
(***************************************************************************)
\* med_data = [["Name", "Dosage"]] + one row per medication
ReportMedData(meds) ==
    << <<"Name", "Dosage">> >>
        \o [i \in 1..Len(meds) |-> <<meds[i].name, meds[i].dosage>>]

\* log[4] or "-"
NotesCell(notes) == IF Truthy(notes) THEN notes[1] ELSE <<"-">>

\* log_data = [["Date", "Symptom", "Severity", "Notes"]] + one row per log
ReportLogData(logs) ==
    << <<"Date", "Symptom", "Severity", "Notes">> >>
        \o [i \in 1..Len(logs) |->
               <<logs[i].date, logs[i].symptom, logs[i].severity,
                 NotesCell(logs[i].notes)>>]

Idle == [pc |-> "idle"]

(***************************************************************************)
(* The state after the tables are created, and one action per script run.  *)
(***************************************************************************)
Init ==
    /\ medications = <<>>
    /\ health_log = <<>>
    /\ today = Days[1]
    /\ shown = [page |-> "Start"]
    /\ last = [op |-> "Start"]
    /\ marked = {}
    /\ tabs = [s \in {1, 2} |-> Idle]

\* datetime.now() moves on to a later date.
NextDay(maxDays) ==
    /\ \E i \in 1..(maxDays - 1) :
          i < Len(Days) /\ today = Days[i] /\ today' = Days[i + 1]
    /\ UNCHANGED <<medications, health_log, shown, last, marked, tabs>>

\* Add Medication page: "Save Medication" pressed with the form f.
SubmitMedication(f, maxMeds) ==
    /\ IF RequiredFieldMissing(f.name, f.dosage, f.reminder_input)
       THEN /\ medications' = medications
            /\ shown' = [page |-> "AddMedication", msg |-> "error"]
       ELSE /\ Len(medications) < maxMeds
            /\ medications' = insertMedication(medications, f)
            /\ shown' = [page |-> "AddMedication", msg |-> "added"]
    /\ last' = [op |-> "AddMedication", name |-> f.name]
    /\ UNCHANGED <<health_log, today, marked, tabs>>

AddMedication(forms, maxMeds) == \E f \in forms : SubmitMedication(f, maxMeds)

\* Dashboard page opened at time of day t: the cards are rendered.
Dashboard ==
    /\ \E t \in Clock :
          shown' = RenderDashboard(medications, health_log, today, TimeStr(t))
    /\ last' = [op |-> "Dashboard"]
    /\ UNCHANGED <<medications, health_log, today, marked, tabs>>

\* Dashboard: the button "Mark <name> as Taken Now" of a rendered card is
\* clicked; the script reruns, reaches the button of that medication (when it
\* is still active), runs the handler and, after a write, reruns once more
\* (st.experimental_rerun), which renders the cards from the new table.
MarkTaken(maxLogs) ==
    /\ shown.page = "Dashboard"
    /\ \E t \in Clock :
       \E k \in 1..Len(shown.cards) :
          LET active == listMedicationsActiveOn(medications, DateStr(today))
              hit == {i \in 1..Len(active) : active[i].id = shown.cards[k].id}
              name == shown.cards[k].name
              after == markMedicationTaken(health_log, DateStr(today), name)
          IN  /\ hit # {}
              /\ Len(after) <= maxLogs
              /\ Len(TakenList(findHealthLogEntryByDate(after, DateStr(today))))
                    <= MaxTaken
              /\ health_log' = after
              /\ marked' = marked \cup {<<DateStr(today), name>>}
              /\ last' = [op |-> "MarkTaken", date |-> DateStr(today),
                           name |-> name]
              /\ shown' = RenderDashboard(medications, after, today, TimeStr(t))
    /\ UNCHANGED <<medications, today, tabs>>

\* Health Log page: "Save Health Entry" pressed.  (The "Recent Health
\* Entries" table below the form only reads the table and is not kept.)
RecordSymptom(maxLogs) ==
    /\ Len(health_log) < maxLogs
    /\ \E f \in SymptomForms :
          health_log' = insertHealthLogEntry(health_log, DateStr(today),
                            f.symptom, f.severity, f.notes)
    /\ shown' = [page |-> "HealthLog", msg |-> "saved"]
    /\ last' = [op |-> "RecordSymptom"]
    /\ UNCHANGED <<medications, today, marked, tabs>>

\* Reports page: the adherence line.
Reports ==
    /\ shown' = [page |-> "Reports",
                 adherence |-> IF health_log # <<>>
                               THEN Len(adherenceRows(health_log)) ELSE 0]
    /\ last' = [op |-> "Reports"]
    /\ UNCHANGED <<medications, health_log, today, marked, tabs>>

\* Generate PDF Report page: the button pressed with the range [from, to].
GenerateReport ==
    /\ \E from \in DaySet, to \in DaySet :
          shown' = [page |-> "PDF", from |-> from, to |-> to,
                    med_data |-> ReportMedData(medications),
                    log_data |-> ReportLogData(
                        listHealthLogEntriesInRange(health_log,
                            DateStr(from), DateStr(to)))]
    /\ last' = [op |-> "GenerateReport"]
    /\ UNCHANGED <<medications, health_log, today, marked, tabs>>

\* Daily use, one browser session: medications are added with the default
\* dates, marked on the dashboard, symptoms logged, the adherence line read.
Next ==
    \/ NextDay(MaxDays)
    \/ AddMedication(AdherenceForms, MaxMeds)
    \/ Dashboard
    \/ MarkTaken(MaxLogs)
    \/ RecordSymptom(MaxLogs)
    \/ Reports

Spec == Init /\ [][Next]_vars

\* The medication catalogue: every choice of start and end date, and the
\* dashboard's query for the medications of the day.
NextCatalogue ==
    \/ NextDay(Len(Days))
    \/ AddMedication(CatalogueForms, MaxCatalogueMeds)
    \/ Dashboard

SpecCatalogue == Init /\ [][NextCatalogue]_vars

\* The PDF export over a store filled by the other pages.
NextExport ==
    \/ NextDay(Len(Days))
    \/ AddMedication(ExportForms, MaxExportMeds)
    \/ Dashboard
    \/ MarkTaken(MaxExportLogs)
    \/ RecordSymptom(MaxExportLogs)
    \/ GenerateReport

SpecExport == Init /\ [][NextExport]_vars

(***************************************************************************)
(* Two browser sessions.  Streamlit runs the script of each session in its *)
(* own thread; the statements of the mark handler are separate SQLite      *)
(* statements with no transaction around them, so another session's        *)
(* statements can run between the SELECT and the UPDATE/INSERT.            *)
(***************************************************************************)
\* The stores a day of use can have produced when the two sessions click.
TabStores ==
    {<<>>,
     insertHealthLogEntry(<<>>, DateStr(Days[1]), <<"H">>, 6, <<>>),
     insertTakenEntry(<<>>, DateStr(Days[1]), <<"b">>)}

TabMeds ==
    LET form(n) == [name |-> n, dosage |-> <<"5", "m", "g">>,
                    reminder_input |-> Padded, start_date |-> Days[1],
                    end_date |-> NULL]
    IN  insertMedication(insertMedication(insertMedication(<<>>,
            form(<<"a">>)), form(<<"b">>)), form(<<"a", ";", "b">>))

InitTabs ==
    /\ medications = TabMeds
    /\ health_log \in TabStores
    /\ today = Days[1]
    /\ shown = RenderDashboard(medications, health_log, today, TimeStr(<<12, 0>>))
    /\ last = [op |-> "Dashboard"]
    /\ marked = LET taken_list == TakenList(
                       findHealthLogEntryByDate(health_log, DateStr(today)))
                IN  {<<DateStr(today), taken_list[i]>> : i \in 1..Len(taken_list)}
    /\ tabs = [s \in {1, 2} |-> Idle]

\* Session s: button clicked; lines 101-104, the SELECT and the membership test.
TabRead(s) ==
    /\ tabs[s].pc = "idle"
    /\ \E k \in 1..Len(shown.cards) :
          LET name == shown.cards[k].name
              row == findHealthLogEntryByDate(health_log, DateStr(today))
              taken_list == TakenList(row)
          IN  tabs' = [tabs EXCEPT ![s] =
                         [pc |-> IF In(name, taken_list) THEN "done" ELSE "write",
                          name |-> name, row |-> row, taken_list |-> taken_list,
                          overlapped |-> \E o \in DOMAIN tabs : tabs[o].pc = "write"]]
    /\ marked' = (IF tabs'[s].pc = "done"
                  THEN marked \cup {<<DateStr(today), tabs'[s].name>>} ELSE marked)
    /\ UNCHANGED <<medications, health_log, today, shown, last>>

\* Session s: lines 105-111, the UPDATE or INSERT with what was read.
TabWrite(s) ==
    /\ tabs[s].pc = "write"
    /\ LET name == tabs[s].name
           taken_str == Join(Append(tabs[s].taken_list, name), ";")
       IN  health_log' =
              IF tabs[s].row # <<>>
              THEN updateTakenMedications(health_log, DateStr(today), taken_str)
              ELSE insertTakenEntry(health_log, DateStr(today), name)
    /\ tabs' = [tabs EXCEPT ![s].pc = "done"]
    /\ marked' = marked \cup {<<DateStr(today), tabs[s].name>>}
    /\ UNCHANGED <<medications, today, shown, last>>

NextTabs ==
    \/ \E s \in DOMAIN tabs : TabRead(s)
    \/ \E s \in DOMAIN tabs : TabWrite(s)

SpecTabs == InitTabs /\ [][NextTabs]_vars

(***************************************************************************)
(* Vocabulary of the properties: calendar and clock order, as opposed to   *)
(* the order of the texts the program compares.                            *)
(***************************************************************************)
DigitVal(ch) == (CHOOSE i \in 1..10 : Digits[i] = ch) - 1

RECURSIVE ToInt(_)
ToInt(s) ==
    IF s = <<>> THEN 0
    ELSE 10 * ToInt(SubSeq(s, 1, Len(s) - 1)) + DigitVal(s[Len(s)])

\* The date <<y, m, d>> an ISO text stands for.
IsoToDate(s) ==
    LET parts == Split(s, "-")
    IN  <<ToInt(parts[1]), ToInt(parts[2]), ToInt(parts[3])>>

\* a is the same day as b or an earlier one
DateLE(a, b) ==
    \/ a[1] < b[1]
    \/ a[1] = b[1] /\ a[2] < b[2]
    \/ a[1] = b[1] /\ a[2] = b[2] /\ a[3] <= b[3]

\* Minutes since midnight of "H:MM" or "HH:MM".
ClockMinutes(s) ==
    LET parts == Split(s, ":")
    IN  60 * ToInt(parts[1]) + ToInt(parts[2])

\* The taken set the evaluator reads for the date text d.
TakenSet(log, d) ==
    LET taken_list == TakenList(findHealthLogEntryByDate(log, d))
    IN  {taken_list[i] : i \in 1..Len(taken_list)}

Occurrences(x, list) == Cardinality({i \in 1..Len(list) : list[i] = x})

(***************************************************************************)
(* Properties.                                                             *)
(***************************************************************************)
\* C1: markMedicationTaken is idempotent.  When the mark button of a
\* medication (any name the form accepted) is clicked twice in a row on the
\* same date, the second click leaves health_log, hence the day's taken set
\* and taken_medications text, as the first click left it, and the name occurs
\* at most once in the day's taken list.
C1_MarkIdempotent ==
    [][(/\ last.op = "MarkTaken" /\ last'.op = "MarkTaken"
        /\ last'.name = last.name /\ last'.date = last.date
        /\ last.date = DateStr(today))
       => /\ health_log' = health_log
          /\ TakenSet(health_log', last.date) = TakenSet(health_log, last.date)
          /\ Occurrences(last.name,
                 TakenList(findHealthLogEntryByDate(health_log', last.date))) <= 1]_vars

\* C2: the evaluator after a mark.  On every rendered dashboard, a medication
\* whose mark for the rendered date has completed has each reminder time
\* earlier than the current time in its taken list and every other one in its
\* pending list; a medication not yet marked that day has every reminder time
\* pending; the two lists partition the reminder times and keep their order.
C2_EvaluatorAfterMark ==
    shown.page = "Dashboard" =>
        \A k \in 1..Len(shown.cards) :
            LET card == shown.cards[k]
                due(t) == ClockMinutes(t) < ClockMinutes(shown.now)
            IN  /\ <<shown.date, card.name>> \in marked =>
                      /\ card.taken = SelectSeq(card.times, due)
                      /\ card.pending = SelectSeq(card.times, LAMBDA t : ~due(t))
                /\ <<shown.date, card.name>> \notin marked =>
                      /\ card.taken = <<>>
                      /\ card.pending = card.times
                /\ \A i \in 1..Len(card.times) :
                      In(card.times[i], card.taken) # In(card.times[i], card.pending)
                /\ Len(card.taken) + Len(card.pending) = Len(card.times)

\* C5: frame of markMedicationTaken.  A mark that finds a row of the date
\* changes the taken_medications field of the first such row and nothing
\* else; one that finds none appends one row holding the date and
\* taken_medications only; no medications row changes.
C5_MarkFrame ==
    [][(last'.op = "MarkTaken" /\ health_log' # health_log) =>
         LET d == DateStr(today)
             idx == {i \in 1..Len(health_log) : health_log[i].date = d}
         IN  /\ medications' = medications
             /\ IF idx # {}
                THEN /\ Len(health_log') = Len(health_log)
                     /\ \A i \in 1..Len(health_log) :
                           IF i = Min(idx)
                           THEN health_log'[i] =
                                  [health_log[i] EXCEPT !.taken_medications =
                                      health_log'[i].taken_medications]
                           ELSE health_log'[i] = health_log[i]
                ELSE /\ Len(health_log') = Len(health_log) + 1
                     /\ SubSeq(health_log', 1, Len(health_log)) = health_log
                     /\ LET new == health_log'[Len(health_log')]
                        IN  /\ new.date = d
                            /\ new.taken_medications # NULL
                            /\ new.symptom = NULL
                            /\ new.severity = NULL
                            /\ new.notes = NULL]_vars

\* C8: for every date at most one health_log row holds a non-empty
\* taken_medications, and the adherence line of the Reports page counts the
\* distinct dates with a taken medication.
C8_OneTakenRowPerDate ==
    /\ \A i, j \in 1..Len(health_log) :
          (/\ i # j
           /\ health_log[i].date = health_log[j].date
           /\ Truthy(health_log[i].taken_medications))
          => ~Truthy(health_log[j].taken_medications)
    /\ shown.page = "Reports" =>
          shown.adherence =
              Cardinality({health_log[i].date :
                              i \in {j \in 1..Len(health_log) :
                                        Truthy(health_log[j].taken_medications)}})

\* C10: once a mark of name n on date d has completed, n stays in the taken
\* set read from the row the date lookup returns for d.
C10_MarksNeverLost ==
    \A m \in marked : m[2] \in TakenSet(health_log, m[1])

\* Both sessions have finished their click, on two different names.
BothDone ==
    /\ \A s \in DOMAIN tabs : tabs[s].pc = "done"
    /\ tabs[1].name # tabs[2].name

\* One session ran its SELECT between the other's SELECT and write.
Interleaved == \E s \in DOMAIN tabs : tabs[s].pc # "idle" /\ tabs[s].overlapped

BothTaken == \A s \in DOMAIN tabs : tabs[s].name \in TakenSet(health_log, DateStr(today))

\* C6: when the two sessions' mark handlers run one after the other (no
\* SELECT of one between the SELECT and the write of the other), the taken
\* set read for the date holds both names once both have completed.
C6_SerializedKeepsBoth == (BothDone /\ ~Interleaved) => BothTaken

\* C6, the race: both sessions completed interleaved, on two names without
\* the separator, and the taken set read for the date lacks one of them.
C6_LostUpdate ==
    /\ BothDone /\ Interleaved
    /\ \A s \in DOMAIN tabs : tabs[s].name \in PlainNames
    /\ ~BothTaken

\* C9: the evaluator classifies a stored reminder time as due already exactly
\* when it is earlier on the clock than the current time, also when its hour
\* is not zero-padded.
C9_DueIsChronological ==
    shown.page = "Dashboard" =>
        \A k \in 1..Len(shown.cards) :
            \A i \in 1..Len(shown.cards[k].times) :
                LET t == shown.cards[k].times[i]
                IN  DueAlready(t, shown.now)
                        <=> ClockMinutes(t) < ClockMinutes(shown.now)

\* start_date <= d and (end_date absent or d <= end_date), on the calendar
ActiveOn(m, d) ==
    /\ DateLE(IsoToDate(m.start_date), d)
    /\ m.end_date = NULL \/ DateLE(d, IsoToDate(m.end_date[1]))

\* C3: listMedicationsActiveOn(d) holds a stored medication exactly when
\* start_date <= d and d <= end_date or end_date is absent, for every date d;
\* the dashboard renders a card for exactly those medications.
C3_ActiveOnRange ==
    /\ \A d \in DaySet : \A i \in 1..Len(medications) :
          In(medications[i], listMedicationsActiveOn(medications, DateStr(d)))
              <=> ActiveOn(medications[i], d)
    /\ shown.page = "Dashboard" =>
          {shown.cards[k].id : k \in 1..Len(shown.cards)}
              = {medications[i].id :
                    i \in {j \in 1..Len(medications) :
                              ActiveOn(medications[j], IsoToDate(shown.date))}}

\* C3 witness: a dashboard rendered with an open-ended medication on it and
\* another stored medication, outside its date range, left off.
C3_Witness ==
    /\ shown.page = "Dashboard"
    /\ \E i \in 1..Len(medications) :
          /\ medications[i].end_date = NULL
          /\ \E k \in 1..Len(shown.cards) : shown.cards[k].id = medications[i].id
    /\ \E i \in 1..Len(medications) :
          /\ medications[i].end_date # NULL
          /\ \A k \in 1..Len(shown.cards) : shown.cards[k].id # medications[i].id

\* C4: a submission of the Add-Medication form with an empty name shows the
\* validation error and leaves medications and health_log as they were; no
\* stored medication ever has an empty name.
C4_EmptyNameRejected ==
    [][/\ (last'.op = "AddMedication" /\ last'.name = <<>>) =>
             /\ medications' = medications
             /\ health_log' = health_log
             /\ shown'.page = "AddMedication" /\ shown'.msg = "error"
       /\ \A i \in 1..Len(medications') : medications'[i].name # <<>>]_vars

\* C4 witness: the form was submitted without a name over a store that holds
\* a medication and a log row, and the error is shown.
C4_Witness ==
    /\ last.op = "AddMedication" /\ last.name = <<>>
    /\ shown.page = "AddMedication" /\ shown.msg = "error"
    /\ medications # <<>>
    /\ health_log # <<>>

\* The health_log rows dated within [from, to] on the calendar.
RowsInRange(from, to) ==
    SelectSeq(health_log, LAMBDA r :
        DateLE(from, IsoToDate(r.date)) /\ DateLE(IsoToDate(r.date), to))

\* C7: the report's health-log table is the header row followed by one row
\* [date, symptom, severity, notes] per stored row dated within [from, to],
\* notes shown as "-" when absent, and nothing else; its medication table is
\* the header row followed by every stored medication.
C7_ReportTables ==
    shown.page = "PDF" =>
        LET rows == RowsInRange(shown.from, shown.to)
        IN  /\ shown.log_data[1] = <<"Date", "Symptom", "Severity", "Notes">>
            /\ Len(shown.log_data) = 1 + Len(rows)
            /\ \A i \in 1..Len(rows) :
                  shown.log_data[i + 1] =
                      <<rows[i].date, rows[i].symptom, rows[i].severity,
                        IF rows[i].notes \in {NULL, Some(<<>>)}
                        THEN <<"-">> ELSE rows[i].notes[1]>>
            /\ shown.med_data[1] = <<"Name", "Dosage">>
            /\ Len(shown.med_data) = 1 + Len(medications)
            /\ \A i \in 1..Len(medications) :
                  shown.med_data[i + 1] =
                      <<medications[i].name, medications[i].dosage>>

\* C7 witness: a report over a range that holds a stored row without notes
\* and leaves another stored row out.
C7_Witness ==
    /\ shown.page = "PDF"
    /\ medications # <<>>
    /\ Len(shown.log_data) >= 2
    /\ Len(shown.log_data) < 1 + Len(health_log)
    /\ \E i \in 2..Len(shown.log_data) : shown.log_data[i][4] = <<"-">>

(***************************************************************************)
(* What does hold of marks of names without the separator ";".             *)
(***************************************************************************)
\* A completed mark of a name without ";" stays in the day's taken set.
PlainMarksNeverLost ==
    \A m \in marked : m[2] \in PlainNames => m[2] \in TakenSet(health_log, m[1])

\* Two sessions marking two names without ";" one after the other keep both.
PlainSerializedKeepsBoth ==
    (/\ BothDone /\ ~Interleaved
     /\ \A s \in DOMAIN tabs : tabs[s].name \in PlainNames) => BothTaken

====
